---- MODULE Spec2Model ----
(***************************************************************************)
(* A model of NiceTestApp.py: one run of the host-inventory probe.         *)
(*                                                                         *)
(* The program is a straight line of calls: parse_arguments,               *)
(* get_system_info (which ends in get_system_processes: prime every        *)
(* process, sleep, re-read every process, rank), constuct_output, print,   *)
(* and log_output when -loginfo was given.  The operating system, psutil,  *)
(* argparse and logging are the environment: what they return or raise is  *)
(* a nondeterministic choice over the outcomes they document.              *)
(*                                                                         *)
(* Text is a sequence of chunks (strings); "\n" is a chunk of its own, so  *)
(* the lines of a text are counted by its "\n" chunks.  An optional value  *)
(* (Python's None) is the empty sequence, a present value v is <<v>>.      *)
(* A float produced by round(x, 2) is held as its number of hundredths,    *)
(* a normalised CPU percentage raw / n as the pair <<raw, n>>.             *)
(***************************************************************************)
EXTENDS Integers, Sequences, FiniteSets, TLC

\* ------------------------------------------------------------ bounds
MaxArgs == 2          \* command-line tokens per invocation
MaxProcs == 3         \* process ids of the host in a whole run
MaxSampled == 6       \* sampled processes handed to the ranking
MaxMemUnits == 17     \* largest total memory, in memory units
MemUnitsPerGb == 8    \* memory units per 1024**3 bytes
MaxPartial == 3       \* chunks of a record that a failed write may leave behind

\* ------------------------------------------------------------ program constants
TopN == 5             \* sorted(...)[:5]
RoundDigits == 2      \* round(..., 2)
SleepSeconds == 1     \* time.sleep(1)

\* ------------------------------------------------------------ values
None == <<>>
Some(v) == <<v>>
IsNone(o) == o = <<>>
Val(o) == o[1]

NL == "\n"
Min(a, b) == IF a < b THEN a ELSE b

RECURSIVE Pow10(_)
Pow10(k) == IF k = 0 THEN 1 ELSE 10 * Pow10(k - 1)

\* A sequence holding the elements of a set of integers in ascending order.
RECURSIVE Ascending(_)
Ascending(S) ==
    IF S = {} THEN <<>>
    ELSE LET m == CHOOSE x \in S : \A y \in S : x <= y
         IN  <<m>> \o Ascending(S \ {m})

\* All sequences over S of length at most n.
SeqsUpTo(S, n) == UNION {[1..k -> S] : k \in 0..n}

\* ------------------------------------------------------------ str() and format()
DigitStr == <<"0", "1", "2", "3", "4", "5", "6", "7", "8", "9">>

\* str(n) of a non-negative int: its decimal digits.
RECURSIVE IntStr(_)
IntStr(n) ==
    IF n < 10 THEN <<DigitStr[n + 1]>>
    ELSE IntStr(n \div 10) \o <<DigitStr[(n % 10) + 1]>>

\* n written with exactly w digits (leading zeros).
RECURSIVE PadDigits(_, _)
PadDigits(n, w) ==
    IF w = 0 THEN <<>>
    ELSE PadDigits(n \div 10, w - 1) \o <<DigitStr[(n % 10) + 1]>>

\* repr drops the trailing zeros of the fraction but keeps one digit.
RECURSIVE StripZeros(_)
StripZeros(ds) ==
    IF Len(ds) > 1 /\ ds[Len(ds)] = "0"
    THEN StripZeros(SubSeq(ds, 1, Len(ds) - 1))
    ELSE ds

\* str(x) of the float x = h / 10**RoundDigits (shortest repr: "16.0", "15.5",
\* "15.93").
FloatStr(h) ==
    IntStr(h \div Pow10(RoundDigits))
        \o <<".">>
        \o StripZeros(PadDigits(h % Pow10(RoundDigits), RoundDigits))

\* Round num / den to the nearest integer, ties to even (round(), ":.0f").
RoundHalfEven(num, den) ==
    LET q == num \div den
        r == num % den
    IN  IF 2 * r < den THEN q
        ELSE IF 2 * r > den THEN q + 1
        ELSE IF q % 2 = 0 THEN q ELSE q + 1

\* str(v) of an optional int: "None" or the digits.
OptIntStr(o) == IF IsNone(o) THEN <<"None">> ELSE IntStr(Val(o))

\* ------------------------------------------------------------ CPU percentages
\* The reading reported as it was read, not divided.
NotNormalized(raw, n) == <<raw, 1>>

\* cpu_usage = raw / num_logical_processors, kept exact.
Normalize(raw, n) == <<raw, n>>
CpuLess(a, b) == a[1] * b[2] < b[1] * a[2]
CpuEquals(a, k) == a[1] = k * a[2]

\* ------------------------------------------------------------ the host
Pids == 1..MaxProcs
\* The probe's own process: always running, always readable.
OwnPid == CHOOSE p \in Pids : \A q \in Pids : p <= q
ProcName(p) == IF p = OwnPid THEN "python" ELSE IF p % 2 = 0 THEN "svchost" ELSE "chrome"

\* Raw cpu_percent() readings over the sleep (percent of one CPU, so up to
\* 100 * logical CPUs): those of a whole run, and those handed to the ranking.
RawCpu == {0, 200}
RankedCpu == {0, 100, 200}

\* disk.opts of the partitions psutil.disk_partitions() may list.
IsFixed(opts) == opts \in {"rw,fixed", "RW,FIXED"}

\* A host whose every metric query answers: 16 GiB, 2 cores, 4 threads, one
\* fixed and one removable volume.
Healthy ==
    [node |-> "HOST1",
     total |-> Some(16 * MemUnitsPerGb),
     physical |-> Some(2),
     logical |-> Some(4),
     partitions |-> Some(<<"rw,fixed", "rw,removable">>)]

\* The hosts of a whole run: the healthy one, and the healthy one with exactly
\* one metric query unavailable (platform.node() gives "", cpu_count() gives
\* None, virtual_memory() and disk_partitions() raise).
Hosts ==
    {Healthy,
     [Healthy EXCEPT !.node = ""],
     [Healthy EXCEPT !.total = None],
     [Healthy EXCEPT !.physical = None],
     [Healthy EXCEPT !.logical = None],
     [Healthy EXCEPT !.partitions = None]}

\* ------------------------------------------------------------ parse_arguments
Tokens == {"-loginfo", "-h", "-x", "-loginfo=1", "report.txt"}
IsHelp(tok) == tok = "-h"
IsLogInfo(tok) == tok = "-loginfo"
HasExplicitValue(tok) == tok = "-loginfo=1"

\* argparse reads the tokens left to right: -h prints the help and exits 0 at
\* once, a value given to the store_true flag is an error at once, anything
\* else it does not know is kept and is an error once all tokens are read.
\* parse_known_args in place of parse_args: what is not known is passed over.
RECURSIVE ParseKnown(_, _, _, _)
ParseKnown(av, i, loginfo, extras) ==
    IF i > Len(av) THEN [outcome |-> "ok", loginfo |-> loginfo]
    ELSE IF IsHelp(av[i]) THEN [outcome |-> "help", loginfo |-> loginfo]
    ELSE IF HasExplicitValue(av[i]) THEN [outcome |-> "error", loginfo |-> loginfo]
    ELSE IF IsLogInfo(av[i]) THEN ParseKnown(av, i + 1, TRUE, extras)
    ELSE ParseKnown(av, i + 1, loginfo, TRUE)

RECURSIVE ParseFrom(_, _, _, _)
ParseFrom(av, i, loginfo, extras) ==
    IF i > Len(av)
    THEN IF extras THEN [outcome |-> "error", loginfo |-> loginfo]
         ELSE [outcome |-> "ok", loginfo |-> loginfo]
    ELSE IF IsHelp(av[i]) THEN [outcome |-> "help", loginfo |-> loginfo]
    ELSE IF HasExplicitValue(av[i]) THEN [outcome |-> "error", loginfo |-> loginfo]
    ELSE IF IsLogInfo(av[i]) THEN ParseFrom(av, i + 1, TRUE, extras)
    ELSE ParseFrom(av, i + 1, loginfo, TRUE)

parse_args(av) == ParseFrom(av, 1, FALSE, FALSE)

\* ------------------------------------------------------------ get_system_info
\* round(total / 1024**3, 2), in hundredths.
RoundedGb(total) == RoundHalfEven(total * Pow10(RoundDigits), MemUnitsPerGb)

RECURSIVE CountFixed(_)
CountFixed(parts) ==
    IF parts = <<>> THEN 0
    ELSE (IF IsFixed(Head(parts)) THEN 1 ELSE 0) + CountFixed(Tail(parts))

\* The first five entries of the dict literal, for a host whose
\* virtual_memory() and disk_partitions() answer.
Metrics(h) ==
    [computer_name |-> h.node,
     total_physical_memory_gb |-> RoundedGb(Val(h.total)),
     physical_processors |-> h.physical,
     logical_processors |-> h.logical,
     number_of_hard_disks |-> CountFixed(Val(h.partitions))]

\* ------------------------------------------------------------ get_system_processes
\* sorted(processes, key=cpu, reverse=True): stable, equal keys keep their order.
RECURSIVE InsertDesc(_, _)
InsertDesc(x, s) ==
    IF s = <<>> THEN <<x>>
    ELSE IF CpuLess(Head(s).cpu, x.cpu) THEN <<x>> \o s
    ELSE <<Head(s)>> \o InsertDesc(x, Tail(s))

RECURSIVE SortedDesc(_)
SortedDesc(s) ==
    IF s = <<>> THEN <<>>
    ELSE InsertDesc(s[Len(s)], SortedDesc(SubSeq(s, 1, Len(s) - 1)))

\* The first five as enumerated, the sort left out.
TopFiveUnsorted(procs) == SubSeq(procs, 1, Min(TopN, Len(procs)))

TopFive(procs) == SubSeq(SortedDesc(procs), 1, Min(TopN, Len(procs)))

\* The tuple appended for one process (pid is kept beside the code's
\* (name, cpu_usage) to tell two processes of one name apart).
Sampled(p, raw, n) == [pid |-> p, name |-> ProcName(p), cpu |-> Normalize(raw, n)]

\* ------------------------------------------------------------ constuct_output
\* The process lines padded with empty lines up to five.
RECURSIVE ProcessLinesPadded(_, _)
ProcessLinesPadded(top, idx) ==
    IF idx > TopN THEN <<>>
    ELSE (IF top = <<>> THEN <<NL>>
          ELSE <<"     ">> \o IntStr(idx) \o <<". ", Head(top).name, " - ">>
                  \o IntStr(RoundHalfEven(Head(top).cpu[1], Head(top).cpu[2]))
                  \o <<"%", NL>>)
         \o ProcessLinesPadded(IF top = <<>> THEN top ELSE Tail(top), idx + 1)

RECURSIVE ProcessLines(_, _)
ProcessLines(top, idx) ==
    IF top = <<>> THEN <<>>
    ELSE <<"     ">> \o IntStr(idx) \o <<". ", Head(top).name, " - ">>
            \o IntStr(RoundHalfEven(Head(top).cpu[1], Head(top).cpu[2]))
            \o <<"%", NL>>
            \o ProcessLines(Tail(top), idx + 1)

constuct_output(si) ==
    <<"Computer Name: ", si.computer_name, NL>>
        \o <<"Total Physical Memory: ">> \o FloatStr(si.total_physical_memory_gb)
        \o <<" Gb", NL>>
        \o <<"Total Number of Physical Processors: ">>
        \o OptIntStr(si.physical_processors) \o <<NL>>
        \o <<"Total Number of Cores: ">> \o OptIntStr(si.logical_processors) \o <<NL>>
        \o <<"Total Number of Hard Disks: ">> \o IntStr(si.number_of_hard_disks)
        \o <<NL>>
        \o <<"Top 5 processes in terms of CPU:", NL>>
        \o ProcessLines(si.top_5_cpu_processes, 1)

\* ------------------------------------------------------------ log_output
\* One record of the root logger: the header, then "\n%s" % formatted_output,
\* then the handler's terminator.
LogEntry(text) ==
    <<"[asctime] [module : lineno] [INFO] [pid] ", NL>> \o text \o <<NL>>

\* ------------------------------------------------------------ the sinks
\* print(text) written twice.
PrintedTwice(out, text) == Append(Append(out, text \o <<NL>>), text \o <<NL>>)

\* print(text): the text and a line break, as one write to standard output.
Printed(out, text) == Append(out, text \o <<NL>>)

\* The file opened with mode "w": the record replaces what the file held.
Truncating(content, text) == text

\* The handler's stream is opened with mode "a": a write lands after what the
\* file holds.
Appended(content, text) == content \o text

\* ------------------------------------------------------------ state
VARIABLES
    pc,                \* where the run is
    argv,              \* sys.argv[1:]
    args,              \* parse_arguments' namespace: None or <<[loginfo |-> ...]>>
    host,              \* what the metric queries of this host answer
    procState,         \* per pid: "unborn", "live" or "gone"
    iter,              \* the pids psutil.process_iter() has still to yield
    firstSeen,         \* the pids listed by the first process_iter()
    primed,            \* pids whose cpu_percent() has a baseline
    num_logical_processors,
    slept,             \* seconds slept in time.sleep
    reads,             \* every cpu_percent() answer: pid, seconds slept before, raw
    processes,         \* the list built by the second loop
    fields,            \* the dict entries evaluated so far
    system_info,
    formatted_output,
    stdout,            \* the texts written to standard output, in order
    stderr,            \* what was written to standard error, in order
    events,            \* the run's outward steps, in order
    log_file,          \* NiceTestApp.log: [exists, content]
    log_prior,         \* NiceTestApp.log as the run found it
    exit_status,       \* None while running, then <<status>>
    error              \* the uncaught exception that ended the run, if any

vars ==
    <<pc, argv, args, host, procState, iter, firstSeen, primed,
      num_logical_processors, slept, reads, processes, fields, system_info,
      formatted_output, stdout, stderr, events, log_file, log_prior,
      exit_status, error>>

NoError == [exc |-> "none", line |-> 0]
Absent == [exists |-> FALSE, content |-> <<>>]
PriorLogs == {Absent, [exists |-> TRUE, content |-> <<"old entry", NL>>]}

Live == {p \in DOMAIN procState : procState[p] = "live"}

\* The state a run starts in, but for the invocation, the host, the process
\* table and the log file.
Fresh ==
    /\ pc = "parse"
    /\ args = None
    /\ iter = <<>>
    /\ firstSeen = {}
    /\ primed = {}
    /\ num_logical_processors = None
    /\ slept = 0
    /\ reads = {}
    /\ processes = <<>>
    /\ fields = None
    /\ system_info = None
    /\ formatted_output = <<>>
    /\ stdout = <<>>
    /\ stderr = <<>>
    /\ events = <<>>
    /\ exit_status = None
    /\ error = NoError

Init ==
    /\ Fresh
    /\ argv \in SeqsUpTo(Tokens, MaxArgs)
    /\ host \in Hosts
    /\ procState \in {f \in [Pids -> {"unborn", "live"}] : f[OwnPid] = "live"}
    /\ log_prior \in PriorLogs
    /\ log_file = log_prior

\* ------------------------------------------------------------ ways a run ends
\* An uncaught exception: the traceback goes to standard error, status 1.
Crash(exc, line) ==
    /\ pc' = "exited"
    /\ exit_status' = Some(1)
    /\ error' = [exc |-> exc, line |-> line]
    /\ stderr' = Append(stderr, "Traceback")

\* ------------------------------------------------------------ __init__, line 45
ParseArguments ==
    /\ pc = "parse"
    /\ LET r == parse_args(argv)
       IN  \/ /\ r.outcome = "ok"
              /\ args' = Some([loginfo |-> r.loginfo])
              /\ pc' = "info"
              /\ UNCHANGED <<stdout, stderr, events, exit_status>>
           \/ /\ r.outcome = "help"
              /\ stdout' = Append(stdout, <<"usage", NL, "help", NL>>)
              /\ events' = Append(events, "help")
              /\ exit_status' = Some(0)
              /\ pc' = "exited"
              /\ UNCHANGED <<args, stderr>>
           \/ /\ r.outcome = "error"
              /\ stderr' = Append(stderr, "usage")
              /\ events' = Append(events, "usage")
              /\ exit_status' = Some(2)
              /\ pc' = "exited"
              /\ UNCHANGED <<args, stdout>>
    /\ UNCHANGED <<argv, host, procState, iter, firstSeen, primed,
                   num_logical_processors, slept, reads, processes, fields,
                   system_info, formatted_output, log_file, log_prior, error>>

\* ------------------------------------------------------------ get_system_info
\* The dict literal's first five entries, in order; virtual_memory() and
\* disk_partitions() raise when the host cannot answer.
ReadMetrics ==
    /\ pc = "info"
    /\ events' = Append(events, "metrics")
    /\ IF IsNone(host.total)
       THEN Crash("OSError", 116) /\ UNCHANGED fields
       ELSE IF IsNone(host.partitions)
       THEN Crash("OSError", 120) /\ UNCHANGED fields
       ELSE /\ fields' = Some(Metrics(host))
            /\ pc' = "sample"
            /\ UNCHANGED <<exit_status, error, stderr>>
    /\ UNCHANGED <<argv, args, host, procState, iter, firstSeen, primed,
                   num_logical_processors, slept, reads, processes,
                   system_info, formatted_output, stdout, log_file, log_prior>>

\* ------------------------------------------------------------ get_system_processes
\* Line 135, and the first process_iter() listing the pids.
BeginPriming ==
    /\ pc = "sample"
    /\ num_logical_processors' = host.logical
    /\ iter' = Ascending(Live)
    /\ firstSeen' = Live
    /\ pc' = "prime"
    /\ UNCHANGED <<argv, args, host, procState, primed, slept, reads, processes,
                   fields, system_info, formatted_output, stdout, stderr, events,
                   log_file, log_prior, exit_status, error>>

\* One turn of the first loop.  process_iter() drops a pid that is gone when
\* it comes to it; a process that goes after it was yielded makes
\* cpu_percent() raise NoSuchProcess, and the loop has no try.
PrimeProcess ==
    /\ pc = "prime"
    /\ iter # <<>>
    /\ LET p == Head(iter)
       IN  \/ /\ procState[p] = "gone"
              /\ iter' = Tail(iter)
              /\ UNCHANGED <<pc, primed, reads, exit_status, error, stderr>>
           \/ /\ procState[p] = "gone"
              /\ Crash("NoSuchProcess", 139)
              /\ UNCHANGED <<iter, primed, reads>>
           \/ /\ procState[p] = "live"
              /\ iter' = Tail(iter)
              /\ primed' = primed \cup {p}
              /\ reads' = reads \cup {[pid |-> p, slept |-> slept, raw |-> Some(0)]}
              /\ UNCHANGED <<pc, exit_status, error, stderr>>
           \/ /\ procState[p] = "live"
              /\ p # OwnPid
              /\ Crash("AccessDenied", 139)
              /\ UNCHANGED <<iter, primed, reads>>
    /\ UNCHANGED <<argv, args, host, procState, firstSeen,
                   num_logical_processors, slept, processes, fields, system_info,
                   formatted_output, stdout, events, log_file, log_prior>>

\* time.sleep(1), once the first loop is through.
Sleep ==
    /\ pc = "prime"
    /\ iter = <<>>
    /\ slept' = slept + SleepSeconds
    /\ events' = Append(events, "sleep")
    /\ pc' = "slept"
    /\ UNCHANGED <<argv, args, host, procState, iter, firstSeen, primed,
                   num_logical_processors, reads, processes, fields, system_info,
                   formatted_output, stdout, stderr, log_file, log_prior,
                   exit_status, error>>

\* processes = [], and the second process_iter() listing the pids.
BeginCollect ==
    /\ pc = "slept"
    /\ processes' = <<>>
    /\ iter' = Ascending(Live)
    /\ pc' = "collect"
    /\ UNCHANGED <<argv, args, host, procState, firstSeen, primed,
                   num_logical_processors, slept, reads, fields, system_info,
                   formatted_output, stdout, stderr, events, log_file, log_prior,
                   exit_status, error>>

\* What cpu_percent() answers for a process: nothing measured yet for one
\* without a baseline.
Readings(p) == IF p \in primed THEN RawCpu ELSE {0}

\* One turn of the second loop.  process_iter() fills proc.info itself: it
\* drops a process that is gone, and stores None for a value the OS denies.
\* Line 147 then divides; None / n and x / None raise TypeError, which the
\* except clause does not name.
CollectProcess ==
    /\ pc = "collect"
    /\ iter # <<>>
    /\ LET p == Head(iter)
       IN  \/ /\ procState[p] = "gone"
              /\ iter' = Tail(iter)
              /\ UNCHANGED <<pc, primed, reads, processes, exit_status, error, stderr>>
           \/ /\ procState[p] = "live"
              /\ p # OwnPid
              /\ primed' = primed \cup {p}
              /\ reads' = reads \cup {[pid |-> p, slept |-> slept, raw |-> None]}
              /\ Crash("TypeError", 147)
              /\ UNCHANGED <<iter, processes>>
           \/ /\ procState[p] = "live"
              /\ \E raw \in Readings(p) :
                    /\ primed' = primed \cup {p}
                    /\ reads' = reads \cup {[pid |-> p, slept |-> slept, raw |-> Some(raw)]}
                    /\ IF IsNone(num_logical_processors)
                       THEN Crash("TypeError", 147) /\ UNCHANGED <<iter, processes>>
                       ELSE /\ processes' =
                                Append(processes,
                                       Sampled(p, raw, Val(num_logical_processors)))
                            /\ iter' = Tail(iter)
                            /\ UNCHANGED <<pc, exit_status, error, stderr>>
    /\ UNCHANGED <<argv, args, host, procState, firstSeen,
                   num_logical_processors, slept, fields, system_info,
                   formatted_output, stdout, events, log_file, log_prior>>

\* Lines 152-154 and the dict literal's last entry.
RankProcesses ==
    /\ pc = "collect"
    /\ iter = <<>>
    /\ system_info' =
          Some([computer_name |-> Val(fields).computer_name,
                total_physical_memory_gb |-> Val(fields).total_physical_memory_gb,
                physical_processors |-> Val(fields).physical_processors,
                logical_processors |-> Val(fields).logical_processors,
                number_of_hard_disks |-> Val(fields).number_of_hard_disks,
                top_5_cpu_processes |-> TopFive(processes)])
    /\ pc' = "format"
    /\ UNCHANGED <<argv, args, host, procState, iter, firstSeen, primed,
                   num_logical_processors, slept, reads, processes, fields,
                   formatted_output, stdout, stderr, events, log_file, log_prior,
                   exit_status, error>>

\* ------------------------------------------------------------ the process table
\* A process other than the probe ends, or starts, while the probe samples.
ProcessExits ==
    /\ pc \in {"prime", "slept", "collect"}
    /\ \E p \in Live \ {OwnPid} : procState' = [procState EXCEPT ![p] = "gone"]
    /\ UNCHANGED <<pc, argv, args, host, iter, firstSeen, primed,
                   num_logical_processors, slept, reads, processes, fields,
                   system_info, formatted_output, stdout, stderr, events,
                   log_file, log_prior, exit_status, error>>

ProcessStarts ==
    /\ pc \in {"prime", "slept"}
    /\ \E p \in DOMAIN procState :
          /\ procState[p] = "unborn"
          /\ procState' = [procState EXCEPT ![p] = "live"]
    /\ UNCHANGED <<pc, argv, args, host, iter, firstSeen, primed,
                   num_logical_processors, slept, reads, processes, fields,
                   system_info, formatted_output, stdout, stderr, events,
                   log_file, log_prior, exit_status, error>>

\* ------------------------------------------------------------ __init__, lines 51-57
ConstructOutput ==
    /\ pc = "format"
    /\ formatted_output' = constuct_output(Val(system_info))
    /\ pc' = "print"
    /\ UNCHANGED <<argv, args, host, procState, iter, firstSeen, primed,
                   num_logical_processors, slept, reads, processes, fields,
                   system_info, stdout, stderr, events, log_file, log_prior,
                   exit_status, error>>

\* print(formatted_output); without -loginfo the run is over, status 0.
PrintReport ==
    /\ pc = "print"
    /\ stdout' = Printed(stdout, formatted_output)
    /\ events' = Append(events, "print")
    /\ IF Val(args).loginfo
       THEN pc' = "log" /\ UNCHANGED exit_status
       ELSE pc' = "exited" /\ exit_status' = Some(0)
    /\ UNCHANGED <<argv, args, host, procState, iter, firstSeen, primed,
                   num_logical_processors, slept, reads, processes, fields,
                   system_info, formatted_output, stderr, log_file, log_prior,
                   error>>

\* ------------------------------------------------------------ log_output
\* logging.basicConfig(filename=...): the FileHandler opens the file at once,
\* in append mode; an OSError of the open is not caught.
OpenLog ==
    /\ pc = "log"
    /\ events' = Append(events, "log_open")
    /\ \/ /\ log_file' = [log_file EXCEPT !.exists = TRUE]
          /\ pc' = "log_write"
          /\ UNCHANGED <<exit_status, error, stderr>>
       \/ /\ Crash("OSError", 183)
          /\ UNCHANGED log_file
    /\ UNCHANGED <<argv, args, host, procState, iter, firstSeen, primed,
                   num_logical_processors, slept, reads, processes, fields,
                   system_info, formatted_output, stdout, log_prior>>

\* logging.info("\n%s", formatted_output): the handler writes the record, or
\* fails having written none or only a first part of it, reports
\* "--- Logging error ---" on standard error and returns.  Either way the run
\* is over, status 0.
WriteLog ==
    /\ pc = "log_write"
    /\ events' = Append(events, "log_write")
    /\ LET entry == LogEntry(formatted_output)
       IN  \/ /\ log_file' = [log_file EXCEPT !.content = Appended(@, entry)]
              /\ UNCHANGED stderr
           \/ /\ \E k \in 0..Min(MaxPartial, Len(entry) - 1) :
                    log_file' = [log_file EXCEPT
                                    !.content = Appended(@, SubSeq(entry, 1, k))]
              /\ stderr' = Append(stderr, "--- Logging error ---")
    /\ pc' = "exited"
    /\ exit_status' = Some(0)
    /\ UNCHANGED <<argv, args, host, procState, iter, firstSeen, primed,
                   num_logical_processors, slept, reads, processes, fields,
                   system_info, formatted_output, stdout, log_prior, error>>

Next ==
    \/ ParseArguments
    \/ ReadMetrics
    \/ BeginPriming
    \/ PrimeProcess
    \/ Sleep
    \/ BeginCollect
    \/ CollectProcess
    \/ RankProcesses
    \/ ProcessExits
    \/ ProcessStarts
    \/ ConstructOutput
    \/ PrintReport
    \/ OpenLog
    \/ WriteLog

Spec == Init /\ [][Next]_vars

\* ------------------------------------------------------------ ranking and report
\* The runs of a host of up to MaxSampled readable processes and any total
\* memory up to MaxMemUnits, taken up where the second loop has read them all:
\* what remains is the ranking, the formatting and the print.
InitReport ==
    \E k \in 1..MaxSampled, t \in 0..MaxMemUnits :
      \E raws \in [1..k -> RankedCpu] :
        /\ pc = "collect"
        /\ argv = <<>>
        /\ args = Some([loginfo |-> FALSE])
        /\ host = [Healthy EXCEPT !.total = Some(t)]
        /\ procState = [p \in 1..k |-> "live"]
        /\ iter = <<>>
        /\ firstSeen = 1..k
        /\ primed = 1..k
        /\ num_logical_processors = host.logical
        /\ slept = SleepSeconds
        /\ reads = {[pid |-> p, slept |-> 0, raw |-> Some(0)] : p \in 1..k}
                     \cup {[pid |-> p, slept |-> SleepSeconds, raw |-> Some(raws[p])] :
                             p \in 1..k}
        /\ processes = [p \in 1..k |-> Sampled(p, raws[p], Val(host.logical))]
        /\ fields = Some(Metrics(host))
        /\ system_info = None
        /\ formatted_output = <<>>
        /\ stdout = <<>>
        /\ stderr = <<>>
        /\ events = <<"metrics", "sleep">>
        /\ log_prior = Absent
        /\ log_file = log_prior
        /\ exit_status = None
        /\ error = NoError

NextReport ==
    \/ RankProcesses
    \/ ConstructOutput
    \/ PrintReport

SpecReport == InitReport /\ [][NextReport]_vars

\* ------------------------------------------------------------ reading a state
Range(s) == {s[i] : i \in DOMAIN s}

\* The lines of a text: the chunks between its "\n" chunks (and what follows
\* the last one, if anything does).
RECURSIVE SplitFrom(_, _, _)
SplitFrom(text, i, line) ==
    IF i > Len(text) THEN (IF line = <<>> THEN <<>> ELSE <<line>>)
    ELSE IF text[i] = NL THEN <<line>> \o SplitFrom(text, i + 1, <<>>)
    ELSE SplitFrom(text, i + 1, Append(line, text[i]))

SplitLines(text) == SplitFrom(text, 1, <<>>)

IsPrefix(a, b) == Len(a) <= Len(b) /\ SubSeq(b, 1, Len(a)) = a

Finished == pc = "exited"
Parsed == ~IsNone(args)
FlagSet == Parsed /\ Val(args).loginfo
Collected == ~IsNone(system_info)
TopList == Val(system_info).top_5_cpu_processes

\* The run was ended by a process that went away or could not be read.
ProcessFault ==
    \/ error.line = 139
    \/ error.line = 147 /\ \E r \in reads : IsNone(r.raw)

\* The run ended with the log record written in full.
LogWritten ==
    /\ Finished
    /\ events # <<>>
    /\ events[Len(events)] = "log_write"
    /\ "--- Logging error ---" \notin Range(stderr)

\* Opening or writing the log file failed.
LogFailed ==
    \/ error.line = 183
    \/ "--- Logging error ---" \in Range(stderr)

\* ------------------------------------------------------------ C1
\* C1: in every run whose arguments parse and whose metric collection succeeds
\* the report is written to standard output exactly once, with the log flag
\* set or not, and no attempt to open or write the log file comes before it.
C1_ReportOnceBeforeLog ==
    /\ Parsed => Len(stdout) <= 1
    /\ (Collected /\ (Finished \/ pc \in {"log", "log_write"}))
          => stdout = <<formatted_output \o <<NL>>>>
    /\ \A i \in DOMAIN events :
          events[i] \in {"log_open", "log_write"}
             => /\ \E j \in 1..(i - 1) : events[j] = "print"
                /\ Len(stdout) = 1

C1_Witness ==
    /\ Finished
    /\ FlagSet
    /\ events = <<"metrics", "sleep", "print", "log_open", "log_write">>
    /\ Len(stdout) = 1

\* ------------------------------------------------------------ C2
\* C2 as stated, for the runs that end with status 0: without the flag the log
\* file is as it was; with the flag it holds what it held, then exactly one
\* new entry.
C2_Original ==
    (Finished /\ Parsed /\ exit_status = Some(0))
       => IF FlagSet
          THEN log_file = [exists |-> TRUE,
                           content |-> log_prior.content \o LogEntry(formatted_output)]
          ELSE log_file = log_prior

\* C2 amended: without the flag the log file is never created or modified; with
\* it, a run whose log file opens and whose write succeeds leaves the file
\* holding what it held, then exactly one new entry; in every other run what the
\* file held is still there, followed by no more than a part of one entry.
C2_AppendOnly ==
    /\ IsPrefix(log_prior.content, log_file.content)
    /\ log_prior.exists => log_file.exists
    /\ ~FlagSet => log_file = log_prior
    /\ LogWritten
          => log_file = [exists |-> TRUE,
                         content |-> log_prior.content \o LogEntry(formatted_output)]
    /\ ~LogWritten
          => \E k \in 0..(Len(LogEntry(formatted_output)) - 1) :
                log_file.content =
                   log_prior.content \o SubSeq(LogEntry(formatted_output), 1, k)

C2_Witness ==
    /\ LogWritten
    /\ FlagSet
    /\ log_prior.exists
    /\ log_prior.content # <<>>
    /\ log_file.content = log_prior.content \o LogEntry(formatted_output)

\* ------------------------------------------------------------ C3
\* C3: when opening or writing the log file fails, the failure is reported on
\* standard error, the report has been printed, no uncaught error ends the run
\* and the exit status is 0.
C3_LogFailureIsAWarning ==
    (Finished /\ LogFailed)
       => /\ stderr # <<>>
          /\ stdout = <<formatted_output \o <<NL>>>>
          /\ error = NoError
          /\ exit_status = Some(0)

\* ------------------------------------------------------------ C4
\* C4: a process that disappears, or that the OS will not let the probe read,
\* is skipped: it never ends the run with an error, it is left out of the
\* sampled list, and every process that was read after the sleep is in it.
C4_FaultyProcessSkipped ==
    /\ ~ProcessFault
    /\ \A e \in Range(processes) :
          \E r \in reads : r.pid = e.pid /\ r.slept >= 1 /\ ~IsNone(r.raw)
    /\ \A r \in reads :
          (r.slept >= 1 /\ ~IsNone(r.raw))
             => \E e \in Range(processes) : e.pid = r.pid

\* ------------------------------------------------------------ C5
\* C5: with exactly one metric query unavailable and the processes readable,
\* the snapshot is still built, the report printed and the exit status 0, and
\* the snapshot has 0 <= physical_processors <= logical_processors.
C5_DegradedMetricStillReports ==
    (Finished /\ Parsed /\ host # Healthy /\ ~ProcessFault /\ ~LogFailed)
       => /\ exit_status = Some(0)
          /\ Collected
          /\ Len(stdout) = 1
          /\ ~IsNone(Val(system_info).physical_processors)
          /\ ~IsNone(Val(system_info).logical_processors)
          /\ 0 <= Val(Val(system_info).physical_processors)
          /\ Val(Val(system_info).physical_processors)
                <= Val(Val(system_info).logical_processors)

\* ------------------------------------------------------------ C6
Unrecognized(tok) == ~IsLogInfo(tok) /\ ~IsHelp(tok)
HasUnrecognized == \E i \in DOMAIN argv : Unrecognized(argv[i])
HasHelp == \E i \in DOMAIN argv : IsHelp(argv[i])

\* Nothing beyond the parse has happened: no metric queried, no sleep, no
\* snapshot, no report, the log file as it was.
NothingAttempted ==
    /\ IsNone(fields)
    /\ IsNone(system_info)
    /\ slept = 0
    /\ reads = {}
    /\ firstSeen = {}
    /\ formatted_output = <<>>
    /\ \A i \in DOMAIN events : events[i] \in {"usage", "help"}
    /\ log_file = log_prior

C7_TopFiveOfSampled ==
    Collected
       => /\ Len(TopList) = Min(5, Len(processes))
          /\ \A i, j \in DOMAIN TopList :
                i < j => ~CpuLess(TopList[i].cpu, TopList[j].cpu)
          /\ Range(TopList) \subseteq Range(processes)
          /\ \A i, j \in DOMAIN TopList : i # j => TopList[i].pid # TopList[j].pid
          /\ \A e \in Range(processes) \ Range(TopList) :
                \A t \in Range(TopList) : ~CpuLess(t.cpu, e.cpu)

C7_Witness ==
    /\ Collected
    /\ Len(processes) = 6
    /\ Len(TopList) = 5
    /\ CpuLess(processes[1].cpu, processes[6].cpu)
    /\ CpuLess(TopList[5].cpu, TopList[1].cpu)
    /\ processes[1] \notin Range(TopList)

\* ------------------------------------------------------------ C8
FixedLabels ==
    <<"Computer Name: ", "Total Physical Memory: ",
      "Total Number of Physical Processors: ", "Total Number of Cores: ",
      "Total Number of Hard Disks: ", "Top 5 processes in terms of CPU:">>

\* C8: the formatter's output is the 6 fixed lines in order, then exactly one
\* line per entry of top_5_cpu_processes, numbered 1..n in list order, and no
\* blank or padding line.
C8_SixLinesPlusOnePerProcess ==
    (Collected /\ formatted_output # <<>>)
       => LET lines == SplitLines(formatted_output)
          IN  /\ Len(lines) = 6 + Len(TopList)
              /\ formatted_output[Len(formatted_output)] = NL
              /\ \A i \in 1..6 : lines[i] # <<>> /\ lines[i][1] = FixedLabels[i]
              /\ lines[6] = <<FixedLabels[6]>>
              /\ \A i \in DOMAIN TopList :
                    LET line == lines[6 + i]
                        n == Len(IntStr(i))
                    IN  /\ Len(line) > n + 3
                        /\ line[1] = "     "
                        /\ SubSeq(line, 2, n + 1) = IntStr(i)
                        /\ line[n + 2] = ". "
                        /\ line[n + 3] = TopList[i].name
                        /\ line[Len(line)] = "%"

C8_Witness ==
    /\ formatted_output # <<>>
    /\ Len(TopList) = 2
    /\ Len(SplitLines(formatted_output)) = 8

\* ------------------------------------------------------------ C9
\* The digits after the "." of a line.
RECURSIVE DotAt(_, _)
DotAt(line, i) ==
    IF i > Len(line) THEN 0 ELSE IF line[i] = "." THEN i ELSE DotAt(line, i + 1)

\* C9: the 'Total Physical Memory' line shows exactly 2 decimal digits, also
\* for a whole number of gigabytes (16 GiB as "16.00 Gb").
C9_TwoDecimals ==
    formatted_output # <<>>
       => LET line == SplitLines(formatted_output)[2]
          IN  /\ DotAt(line, 1) > 0
              /\ line[Len(line)] = " Gb"
              /\ Len(line) - 1 - DotAt(line, 1) = 2

\* ------------------------------------------------------------ C10
\* C10: every process listed by the first enumeration, and still there to be
\* read, is primed before the one sleep; the sleep is 1 second, once; every
\* reading in the list was taken after the sleep and is the raw reading divided
\* by the logical processor count (200 on 4 logical processors is 50); nothing
\* read before the sleep is reported.
C10_PrimeSleepReread ==
    /\ slept \in {0, 1}
    /\ \A i, j \in DOMAIN events : (events[i] = "sleep" /\ events[j] = "sleep") => i = j
    /\ (pc \in {"slept", "collect", "format", "print", "log", "log_write"} \/ Collected)
          => (slept = 1 /\ "sleep" \in Range(events))
    /\ slept >= 1
          => \A p \in firstSeen :
                \/ procState[p] = "gone"
                \/ \E r \in reads : r.pid = p /\ r.slept = 0
    /\ slept = 0 => processes = <<>>
    /\ \A e \in Range(processes) \cup (IF Collected THEN Range(TopList) ELSE {}) :
          \E r \in reads :
             /\ r.pid = e.pid
             /\ r.slept = 1
             /\ ~IsNone(r.raw)
             /\ ~IsNone(host.logical)
             /\ e.cpu[2] > 0
             /\ e.cpu[1] * Val(host.logical) = Val(r.raw) * e.cpu[2]
             /\ (Val(r.raw) = 200 /\ Val(host.logical) = 4) => CpuEquals(e.cpu, 50)

C10_Witness ==
    /\ Collected
    /\ \E e \in Range(TopList) :
          /\ CpuEquals(e.cpu, 50)
          /\ [pid |-> e.pid, slept |-> 1, raw |-> Some(200)] \in reads
          /\ [pid |-> e.pid, slept |-> 0, raw |-> Some(0)] \in reads

====
